---- MODULE Spec2Model ----
(***************************************************************************)
(* A model of src/src/page.js (wikiPage): the file-name helper, the info   *)
(* accessor with its template fallback, the main-image resolver and the    *)
(* paginated accessors (links, categories, backlinks).                     *)
(*                                                                         *)
(* JavaScript strings are sequences of one-character strings, so that      *)
(* indexOf, split, replace and toLowerCase are computed, not assumed.      *)
(* A JavaScript value is a record [kind, v]: undefined, a string (v holds  *)
(* the one string) or an array of strings (v holds the elements).          *)
(***************************************************************************)
EXTENDS Integers, Sequences, FiniteSets, TLC

\* ------------------------------------------------------------------ bounds
MaxTextLen == 5      \* longest argument tried on getFileName
MaxImages == 2       \* most candidates in one image listing
MaxFields == 2       \* most keys present in one infobox field set
MaxBatches == 3      \* most batches of one remote paged list
MaxBatchLen == 2     \* most items in one batch

\* ------------------------------------------------------- JavaScript values
JSUndefined == [kind |-> "undefined", v |-> <<>>]
JSStr(s) == [kind |-> "string", v |-> <<s>>]
JSArr(xs) == [kind |-> "array", v |-> xs]

Chars(x) == x.v[1]

\* !x for the values above: undefined and "" are falsy, every array is truthy
Falsy(x) == \/ x.kind = "undefined"
            \/ (x.kind = "string" /\ Chars(x) = <<>>)

\* a || b
JSOr(a, b) == IF Falsy(a) THEN b ELSE a

\* ------------------------------------------------------------------ strings
\* String.prototype.indexOf(pat): the 0-based position of the first
\* occurrence of pat in text, -1 when there is none
IndexOf(text, pat) ==
    LET n == Len(text)
        m == Len(pat)
        hits == {i \in 0..(n - m) : SubSeq(text, i + 1, i + m) = pat}
    IN IF hits = {} THEN -1
       ELSE CHOOSE i \in hits : \A j \in hits : i <= j

\* String.prototype.split(':'): the segments between the colons
RECURSIVE SplitColon(_)
SplitColon(text) ==
    LET i == IndexOf(text, <<":">>)
    IN IF i = -1 THEN <<text>>
       ELSE <<SubSeq(text, 1, i)>> \o SplitColon(SubSeq(text, i + 2, Len(text)))

\* /\s/ on the characters of the model's alphabet
IsWhitespace(c) == c = " "

\* String.prototype.replace(/\s/g, '_')
ReplaceWhitespace(s) == [i \in 1..Len(s) |-> IF IsWhitespace(s[i]) THEN "_" ELSE s[i]]

\* String.prototype.toLowerCase() on the characters of the model's alphabet
LowerChar(c) == CASE c = "B" -> "b"
                  [] c = "A" -> "a"
                  [] c = "F" -> "f"
                  [] c = "T" -> "t"
                  [] OTHER -> c
ToLowerCase(s) == [i \in 1..Len(s) |-> LowerChar(s[i])]

\* ------------------------------------------------------------- getFileName
getFileName(text) ==
    LET t == IF text.kind = "array"
             THEN (IF Len(text.v) > 0 THEN JSStr(text.v[1]) ELSE JSUndefined)
             ELSE text
    IN IF Falsy(t) THEN JSUndefined
       ELSE IF IndexOf(Chars(t), <<":">>) # -1
            THEN JSStr(SplitColon(Chars(t))[2])
            ELSE t

\* ------------------------------------------------------------ input domains
\* "F" stands for a namespace such as File, "a b", "a_b" and "b" for file names
FileA_B == <<"F", ":", "a", "_", "b">>
FileAB == <<"F", ":", "a", " ", "b">>
FileB == <<"F", ":", "b">>
NameA_B == <<"a", "_", "b">>
NameAB == <<"a", " ", "b">>
NameB == <<"b">>

\* titles of the image listing: a namespace, a colon, a name without a colon
ListingTitles == {FileAB, FileA_B, FileB}
RecordCounts == {0, 2}

\* the URL the k-th image-info record of the candidate titled t carries
Url(t, k) == t \o <<(<<"1", "2", "3">>)[k]>>

Candidate(t, n) == [title |-> t, imageinfo |-> [k \in 1..n |-> [url |-> Url(t, k)]]]
Candidates == {Candidate(t, n) : t \in ListingTitles, n \in RecordCounts}

\* res.query.pages in Object.keys order: candidates with distinct titles
RECURSIVE ListingsOfLength(_)
ListingsOfLength(n) ==
    IF n = 0 THEN {<<>>}
    ELSE {Append(l, c) : l \in ListingsOfLength(n - 1), c \in Candidates}
Distinct(l) == \A i, j \in 1..Len(l) : l[i].title = l[j].title => i = j
Listings == UNION {{l \in ListingsOfLength(n) : Distinct(l)} : n \in 0..MaxImages}

\* the keys mainImage reads, in the order it reads them, and one other key
ImageKeys == <<"image", "bildname", "imagen", "Immagine", "badge", "logo">>
AllKeys == {ImageKeys[i] : i \in 1..Len(ImageKeys)} \cup {"name"}

\* values the infobox parser yields: "", "a_b", "F:", ["F:a b", "b"]
InfoValues == {JSStr(<<>>), JSStr(NameA_B), JSStr(<<"F", ":">>),
               JSArr(<<FileAB, NameB>>)}

\* a field set maps every key to its value, undefined when the key is absent
FieldSetOn(S, g) == [k \in AllKeys |-> IF k \in S THEN g[k] ELSE JSUndefined]
FieldSets == UNION {{FieldSetOn(S, g) : g \in [S -> InfoValues]} :
                    S \in {T \in SUBSET AllKeys : Cardinality(T) <= MaxFields}}
EmptyFieldSet == [k \in AllKeys |-> JSUndefined]

\* Object.keys(info)
ObjectKeys(f) == {k \in AllKeys : f[k].kind # "undefined"}

\* raw.title
PageTitles == {<<"B", "a">>}

\* the raw text of section 0
RawTexts == {<<>>,
             FileB \o <<" ">> \o NameAB,
             FileA_B \o FileB,
             FileB \o FileAB}

\* -------------------------------------------------------------------- state
VARIABLES
    rawTitle,       \* raw.title of the page the accessors work on
    call,           \* the accessor the caller invoked, "none" before the call
    requests,       \* the parameters of every api() call issued, in order
    imgPc,          \* rawImages(): "idle", "pending", "resolved", "rejected"
    images,         \* the listing rawImages() resolved with
    infoPc,         \* info(): "idle", "fetch1", "fetch2", "resolved", "rejected"
    infoKey,        \* the key argument of info()
    general,        \* the field mapping parsed from the page's own wikitext
    metadata,       \* the field mapping info() settled on
    infoOut,        \* the value info() resolved with
    infoError,      \* the error info() rejected with, "none" if none
    mainPc,         \* mainImage(): "idle", "waiting", "rawtext", "resolved", "rejected"
    mainImageName,  \* the const of that name in mainImage
    rawText,        \* the text the fallback's rawInfo() resolved with
    result,         \* the value the called accessor resolved with
    error,          \* the error the called accessor rejected with, "none" if none
    remote,         \* the remote paged list: its batches, in the server's order
    pgAccessor,     \* the paginated accessor called: links, categories, backlinks
    pgAggregated,   \* its aggregated argument
    pgPc,           \* "idle", "fetching", "cursor", "done", "failed"
    pgRequests,     \* the parameters of every request of the pagination, in order
    pgAnswered,     \* how many of them the server has answered
    pgResults,      \* the items aggregated so far
    pgCursor,       \* the cursor form last resolved: current batch, more to fetch
    pgNextCalls,    \* how often the caller has asked the cursor for the next batch
    fnPc,           \* getFileName: "ready", "done"
    fnInput,        \* its argument
    fnOutput        \* the value it returned

mainVars == <<rawTitle, call, requests, imgPc, images, infoPc, infoKey, general,
              metadata, infoOut, infoError, mainPc, mainImageName, rawText, result,
              error>>
pagingVars == <<remote, pgAccessor, pgAggregated, pgPc, pgRequests, pgAnswered,
                pgResults, pgCursor, pgNextCalls>>
fnVars == <<fnPc, fnInput, fnOutput>>
vars == <<mainVars, pagingVars, fnVars>>

\* ------------------------------------------------------------------ requests
\* rawImages' parameters
ImagesRequest == [prop |-> "imageinfo", titles |-> rawTitle]

\* "Template:Infobox "
TemplatePrefix == <<"T", "e", "m", "p", "l", "a", "t", "e", ":",
                    "I", "n", "f", "o", "b", "o", "x", " ">>

\* a faulty variant: it does not lower-case the title
TemplateTitleAsIs == JSStr(TemplatePrefix \o rawTitle)

\* `Template:Infobox ${raw.title.toLowerCase()}`
TemplateTitle == JSStr(TemplatePrefix \o ToLowerCase(rawTitle))

\* rawInfo(title)'s parameters: titles is title || raw.title
RawInfoRequest(title) ==
    [prop |-> "revisions", titles |-> Chars(JSOr(title, JSStr(rawTitle)))]

\* ------------------------------------------------------------- info's steps
\* Object.keys(info).length === 0
NeedsTemplate(f) == Cardinality(ObjectKeys(f)) = 0

\* the last step of info(key): the mapping, or the value under key; key is ""
\* when no key (or a falsy one) was given
InfoValueOf(f, key) ==
    IF key = "" THEN [kind |-> "object", v |-> f]
    ELSE IF key \in ObjectKeys(f) THEN f[key]
    ELSE JSUndefined

\* -------------------------------------------------------- mainImage's steps
\* a faulty variant: it reads bildname before image
ImageFieldBildnameFirst(f) ==
    JSOr(JSOr(JSOr(JSOr(JSOr(f["bildname"], f["image"]), f["imagen"]),
                   f["Immagine"]), f["badge"]), f["logo"])

\* info.image || info.bildname || info.imagen || info.Immagine || info.badge || info.logo
ImageField(f) ==
    JSOr(JSOr(JSOr(JSOr(JSOr(f["image"], f["bildname"]), f["imagen"]),
                   f["Immagine"]), f["badge"]), f["logo"])

\* a faulty variant: it falls back only when the name is undefined, not when it is ""
NoMainImageNameUndefinedOnly(name) == name.kind = "undefined"

\* !mainImageName
NoMainImageName(name) == Falsy(name)

\* a faulty variant: it compares the file names as they are
MatchesExactly(title, name) == getFileName(JSStr(title)) = name

\* the callback of images.find: the listing title's file name equals the name,
\* as it is or with its whitespace replaced by underscores (a listing title is
\* not empty, so its file name is a string)
Matches(title, name) ==
    LET filename == getFileName(JSStr(title))
    IN \/ filename = name
       \/ JSStr(ReplaceWhitespace(Chars(filename))) = name

RECURSIVE FindFrom(_, _, _)
FindFrom(imgs, name, i) ==
    IF i > Len(imgs) THEN 0
    ELSE IF Matches(imgs[i].title, name) THEN i
    ELSE FindFrom(imgs, name, i + 1)

\* a faulty variant: it returns the last matching candidate
FindImageLast(imgs, name) ==
    LET hits == {i \in 1..Len(imgs) : Matches(imgs[i].title, name)}
    IN IF hits = {} THEN 0 ELSE CHOOSE i \in hits : \A j \in hits : j <= i

\* images.find(...): the index of the first matching candidate, 0 for undefined
FindImage(imgs, name) == FindFrom(imgs, name, 1)

\* a faulty variant: it returns the last record's URL
ImageUrlLast(image) ==
    IF Len(image.imageinfo) > 0
    THEN JSStr(image.imageinfo[Len(image.imageinfo)].url)
    ELSE JSUndefined

\* image.imageinfo.length > 0 ? image.imageinfo[0].url : undefined
ImageUrl(image) ==
    IF Len(image.imageinfo) > 0 THEN JSStr(image.imageinfo[1].url) ELSE JSUndefined

\* image && image.imageinfo.length > 0 ? image.imageinfo[0].url : undefined
MatchedResult(imgs, name) ==
    LET i == FindImage(imgs, name)
    IN IF i # 0 THEN ImageUrl(imgs[i]) ELSE JSUndefined

\* a faulty variant: it sorts by ascending position
CompareAscending(text, a, b) == IndexOf(text, a.title) - IndexOf(text, b.title)

\* (a, b) => text.indexOf(b.title) - text.indexOf(a.title)
Compare(text, a, b) == IndexOf(text, b.title) - IndexOf(text, a.title)

\* one insertion of a stable sort: c goes before the first element it must precede
RECURSIVE InsertSorted(_, _, _)
InsertSorted(text, sorted, c) ==
    IF sorted = <<>> THEN <<c>>
    ELSE IF Compare(text, c, Head(sorted)) < 0 THEN <<c>> \o sorted
    ELSE <<Head(sorted)>> \o InsertSorted(text, Tail(sorted), c)

\* images.sort(comparator): Array.prototype.sort is stable
RECURSIVE SortImages(_, _)
SortImages(text, imgs) ==
    IF imgs = <<>> THEN <<>>
    ELSE InsertSorted(text, SortImages(text, SubSeq(imgs, 1, Len(imgs) - 1)),
                      imgs[Len(imgs)])

\* the comparator reads text.indexOf: with text undefined it throws as soon as
\* sort compares two elements
SortThrows(text, imgs) == text.kind = "undefined" /\ Len(imgs) >= 2

\* a faulty variant: it waits for info() alone and takes a failed listing for settled
PromiseAllInfoOnly(ipc, npc) ==
    IF npc = "rejected" THEN "rejected"
    ELSE IF npc = "resolved" /\ ipc # "pending" THEN "resolved"
    ELSE "pending"

\* Promise.all([rawImages(), info()]): rejected with the first rejection,
\* resolved once both have resolved
PromiseAll(ipc, npc) ==
    IF ipc = "rejected" \/ npc = "rejected" THEN "rejected"
    ELSE IF ipc = "resolved" /\ npc = "resolved" THEN "resolved"
    ELSE "pending"

\* a parsed field mapping, as a JavaScript value
Obj(f) == [kind |-> "object", v |-> f]

\* the response of rawImages' request: without a query member, or with pages
ImagesResponses == {[hasQuery |-> FALSE, pages |-> <<>>]} \cup
                   {[hasQuery |-> TRUE, pages |-> l] : l \in Listings}

\* res.query ? Object.keys(res.query.pages).map(id => res.query.pages[id]) : []
RawImagesResult(res) == IF res.hasQuery THEN res.pages ELSE <<>>

\* ---------------------------------------------------------------------- Init
\* the page object right after wikiPage(rawPageInfo, apiOptions): nothing called
PageInit ==
    /\ rawTitle \in PageTitles
    /\ call = "none"
    /\ requests = <<>>
    /\ imgPc = "idle"
    /\ images = <<>>
    /\ infoPc = "idle"
    /\ infoKey = ""
    /\ general = JSUndefined
    /\ metadata = JSUndefined
    /\ infoOut = JSUndefined
    /\ infoError = "none"
    /\ mainPc = "idle"
    /\ mainImageName = JSUndefined
    /\ rawText = JSUndefined
    /\ result = JSUndefined
    /\ error = "none"

\* no paginated accessor called
PagingIdle ==
    /\ remote = <<>>
    /\ pgAccessor = "none"
    /\ pgAggregated = TRUE
    /\ pgPc = "idle"
    /\ pgRequests = <<>>
    /\ pgAnswered = 0
    /\ pgResults = <<>>
    /\ pgCursor = [results |-> <<>>, continue |-> 0]
    /\ pgNextCalls = 0

\* getFileName not applied
FileNameIdle ==
    /\ fnPc = "idle"
    /\ fnInput = JSUndefined
    /\ fnOutput = JSUndefined

Init == PageInit /\ PagingIdle /\ FileNameIdle

\* -------------------------------------------------------------- continuations
\* What follows, in the same turn of the event loop, once rawImages() is in
\* state ipc (with listing imgs) and info() in state npc (with value out), reqs
\* being the requests issued so far and err the error of a rejection.
\* For a call of info() the caller's promise settles with info's.  For a call
\* of mainImage() Promise.all settles and, if it resolves, the callback of
\* lines 125-158 runs up to the fallback's request or to its return.
Continue(ipc, imgs, npc, out, reqs, err) ==
    IF call = "info"
    THEN /\ requests' = reqs
         /\ result' = IF npc = "resolved" THEN out ELSE result
         /\ error' = IF npc = "rejected" THEN err ELSE error
         /\ UNCHANGED <<mainPc, mainImageName>>
    ELSE IF mainPc # "waiting" \/ PromiseAll(ipc, npc) = "pending"
    THEN /\ requests' = reqs
         /\ UNCHANGED <<mainPc, mainImageName, result, error>>
    ELSE IF PromiseAll(ipc, npc) = "rejected"
    THEN /\ requests' = reqs
         /\ mainPc' = "rejected"
         /\ error' = err
         /\ UNCHANGED <<mainImageName, result>>
    ELSE LET name == getFileName(ImageField(out.v))
         IN /\ mainImageName' = name
            /\ error' = error
            /\ IF NoMainImageName(name)
               THEN /\ mainPc' = "rawtext"
                    /\ requests' = Append(reqs, RawInfoRequest(JSUndefined))
                    /\ result' = result
               ELSE /\ mainPc' = "resolved"
                    /\ requests' = reqs
                    /\ result' = MatchedResult(imgs, name)

\* -------------------------------------------------------------------- actions
\* mainImage(): rawImages() and info() are called, each issuing its request
CallMainImage ==
    /\ call = "none"
    /\ call' = "mainImage"
    /\ imgPc' = "pending"
    /\ infoPc' = "fetch1"
    /\ mainPc' = "waiting"
    /\ requests' = <<ImagesRequest, RawInfoRequest(JSUndefined)>>
    /\ UNCHANGED <<pagingVars, fnVars, infoError, rawTitle, images, infoKey, general, metadata, infoOut,
                   mainImageName, rawText, result, error>>

\* info(key): rawInfo() is called and issues its request
CallInfo ==
    /\ call = "none"
    /\ call' = "info"
    /\ infoPc' = "fetch1"
    /\ infoKey' \in {"", "image", "name"}
    /\ requests' = <<RawInfoRequest(JSUndefined)>>
    /\ UNCHANGED <<pagingVars, fnVars, infoError, rawTitle, imgPc, images, general, metadata, infoOut, mainPc,
                   mainImageName, rawText, result, error>>

\* rawImages' request fails
ImagesFail ==
    /\ imgPc = "pending"
    /\ imgPc' = "rejected"
    /\ Continue("rejected", images, infoPc, infoOut, requests, "ErrImages")
    /\ UNCHANGED <<pagingVars, fnVars, infoError, rawTitle, call, images, infoPc, infoKey, general, metadata,
                   infoOut, rawText>>

\* rawImages' request is answered
ImagesRespond ==
    /\ imgPc = "pending"
    /\ \E res \in ImagesResponses :
          /\ images' = RawImagesResult(res)
          /\ Continue("resolved", RawImagesResult(res), infoPc, infoOut, requests, error)
    /\ imgPc' = "resolved"
    /\ UNCHANGED <<pagingVars, fnVars, infoError, rawTitle, call, infoPc, infoKey, general, metadata, infoOut,
                   rawText>>

\* info's first request fails
InfoPageFail ==
    /\ infoPc = "fetch1"
    /\ infoPc' = "rejected"
    /\ infoError' = "ErrInfoPage"
    /\ Continue(imgPc, images, "rejected", infoOut, requests, "ErrInfoPage")
    /\ UNCHANGED <<pagingVars, fnVars, rawTitle, call, imgPc, images, infoKey, general, metadata,
                   infoOut, rawText>>

\* info's first request is answered without wikitext (rawInfo resolves with
\* undefined) and infoboxParser, handed undefined, throws
InfoPageParserThrows ==
    /\ infoPc = "fetch1"
    /\ infoPc' = "rejected"
    /\ infoError' = "TypeError"
    /\ Continue(imgPc, images, "rejected", infoOut, requests, "TypeError")
    /\ UNCHANGED <<pagingVars, fnVars, rawTitle, call, imgPc, images, infoKey, general, metadata,
                   infoOut, rawText>>

\* info's first request is answered and the wikitext parsed: with no field
\* the template's wikitext is requested, otherwise info() resolves
InfoPageParsed ==
    /\ infoPc = "fetch1"
    /\ \E f \in FieldSets :
          /\ general' = Obj(f)
          /\ IF NeedsTemplate(f)
             THEN /\ infoPc' = "fetch2"
                  /\ Continue(imgPc, images, "fetch2", infoOut,
                              Append(requests, RawInfoRequest(TemplateTitle)), error)
                  /\ UNCHANGED <<metadata, infoOut>>
             ELSE /\ infoPc' = "resolved"
                  /\ metadata' = Obj(f)
                  /\ infoOut' = InfoValueOf(f, infoKey)
                  /\ Continue(imgPc, images, "resolved", InfoValueOf(f, infoKey),
                              requests, error)
    /\ UNCHANGED <<pagingVars, fnVars, infoError, rawTitle, call, imgPc, images, infoKey, rawText>>

\* the template's request fails
InfoTemplateFail ==
    /\ infoPc = "fetch2"
    /\ infoPc' = "rejected"
    /\ infoError' = "ErrInfoTemplate"
    /\ Continue(imgPc, images, "rejected", infoOut, requests, "ErrInfoTemplate")
    /\ UNCHANGED <<pagingVars, fnVars, rawTitle, call, imgPc, images, infoKey, general, metadata,
                   infoOut, rawText>>

\* the template's request is answered and its wikitext (or '') parsed
InfoTemplateParsed ==
    /\ infoPc = "fetch2"
    /\ \E f \in FieldSets :
          /\ metadata' = Obj(f)
          /\ infoOut' = InfoValueOf(f, infoKey)
          /\ Continue(imgPc, images, "resolved", InfoValueOf(f, infoKey),
                      requests, error)
    /\ infoPc' = "resolved"
    /\ UNCHANGED <<pagingVars, fnVars, infoError, rawTitle, call, imgPc, images, infoKey, general, rawText>>

\* the fallback's request fails
RawTextFail ==
    /\ mainPc = "rawtext"
    /\ mainPc' = "rejected"
    /\ error' = "ErrRawText"
    /\ UNCHANGED <<pagingVars, fnVars, infoError, rawTitle, call, requests, imgPc, images, infoPc, infoKey,
                   general, metadata, infoOut, mainImageName, rawText, result>>

\* the fallback's request is answered, with text or with undefined
RawTextRespond ==
    /\ mainPc = "rawtext"
    /\ \E text \in {JSUndefined} \cup {JSStr(t) : t \in RawTexts} :
          /\ rawText' = text
          /\ IF Len(images) = 0
             THEN /\ mainPc' = "resolved"
                  /\ result' = JSUndefined
                  /\ UNCHANGED <<images, error>>
             ELSE IF SortThrows(text, images)
             THEN /\ mainPc' = "rejected"
                  /\ error' = "TypeError"
                  /\ UNCHANGED <<images, result>>
             ELSE LET sorted == IF text.kind = "undefined" THEN images
                                ELSE SortImages(Chars(text), images)
                  IN /\ images' = sorted
                     /\ mainPc' = "resolved"
                     /\ result' = ImageUrl(sorted[1])
                     /\ error' = error
    /\ UNCHANGED <<pagingVars, fnVars, infoError, rawTitle, call, requests, imgPc, infoPc, infoKey, general,
                   metadata, infoOut, mainImageName>>

Next ==
    \/ CallMainImage
    \/ CallInfo
    \/ ImagesFail
    \/ ImagesRespond
    \/ InfoPageFail
    \/ InfoPageParserThrows
    \/ InfoPageParsed
    \/ InfoTemplateFail
    \/ InfoTemplateParsed
    \/ RawTextFail
    \/ RawTextRespond

Spec == Init /\ [][Next]_vars

\* ------------------------------------------------------ paginated accessors
\* limit = 100
DefaultLimit == 100

Accessors == {"links", "categories", "backlinks"}

\* the query each accessor hands to pagination()
AccessorParams(acc, limit) ==
    CASE acc = "links" ->
           [module |-> "prop", name |-> "links", plnamespace |-> {0},
            limitParam |-> "pllimit", limit |-> limit,
            titleParam |-> "titles", title |-> rawTitle]
      [] acc = "categories" ->
           [module |-> "prop", name |-> "categories", plnamespace |-> {},
            limitParam |-> "pllimit", limit |-> limit,
            titleParam |-> "titles", title |-> rawTitle]
      [] acc = "backlinks" ->
           [module |-> "list", name |-> "backlinks", plnamespace |-> {},
            limitParam |-> "bllimit", limit |-> limit,
            titleParam |-> "bltitle", title |-> rawTitle]

\* a faulty variant: it maps the batch in reverse
ExtractTitlesReversed(items) ==
    [i \in 1..Len(items) |-> items[Len(items) + 1 - i].title]

\* the extraction each accessor hands to pagination():
\* res => <the response's list>.map(link => link.title)
ExtractTitles(items) == [i \in 1..Len(items) |-> items[i].title]

\* if (aggregated) return aggregatePagination(_pagination); return _pagination
ReturnedForm(aggregated) == IF aggregated THEN "aggregate" ELSE "cursor"

\* the remote lists: the items 1, 2, ... cut into at most MaxBatches batches of
\* at most MaxBatchLen items, some of them possibly empty
BatchSizes == UNION {[1..k -> 0..MaxBatchLen] : k \in 1..MaxBatches}
RECURSIVE SumTo(_, _)
SumTo(sz, b) == IF b = 0 THEN 0 ELSE sz[b] + SumTo(sz, b - 1)
RemoteOf(sz) ==
    [b \in 1..Len(sz) |-> [i \in 1..sz[b] |-> [title |-> SumTo(sz, b - 1) + i]]]
RemoteLists == {RemoteOf(sz) : sz \in BatchSizes}

\* one request of pagination(): the accessor's query merged with the
\* continuation token of the previous response, 0 when there is none
PaginationRequest(params, token) == [params |-> params, continue |-> token]

\* the server's answer to a request carrying token k: batch k + 1, and a
\* continuation token unless that batch is the last
ServerAnswer(k) ==
    [items |-> remote[k + 1],
     continue |-> IF k + 1 < Len(remote) THEN k + 1 ELSE 0]

InitPaging ==
    /\ PageInit
    /\ FileNameIdle
    /\ remote \in RemoteLists
    /\ pgAccessor = "none"
    /\ pgAggregated = TRUE
    /\ pgPc = "idle"
    /\ pgRequests = <<>>
    /\ pgAnswered = 0
    /\ pgResults = <<>>
    /\ pgCursor = [results |-> <<>>, continue |-> 0]
    /\ pgNextCalls = 0

\* links(aggregated, limit), categories(...), backlinks(...): pagination() is
\* called and issues the first request
CallAccessor ==
    /\ pgPc = "idle"
    /\ \E acc \in Accessors, limit \in {MaxBatchLen, DefaultLimit} :
          /\ pgAccessor' = acc
          /\ pgRequests' = <<PaginationRequest(AccessorParams(acc, limit), 0)>>
    /\ pgAggregated' \in BOOLEAN
    /\ pgPc' = "fetching"
    /\ UNCHANGED <<mainVars, fnVars, remote, pgAnswered, pgResults, pgCursor,
                   pgNextCalls>>

\* the outstanding request is answered: the batch is extracted; aggregating,
\* it is appended and the next request issued while a token came with it;
\* otherwise the cursor form resolves with the batch
PageRespond ==
    /\ pgPc = "fetching"
    /\ LET req == pgRequests[Len(pgRequests)]
           res == ServerAnswer(req.continue)
           batch == ExtractTitles(res.items)
       IN IF ReturnedForm(pgAggregated) = "aggregate"
          THEN /\ pgResults' = pgResults \o batch
               /\ IF res.continue # 0
                  THEN /\ pgRequests' = Append(pgRequests,
                                          PaginationRequest(req.params, res.continue))
                       /\ pgPc' = "fetching"
                  ELSE /\ pgPc' = "done"
                       /\ UNCHANGED pgRequests
               /\ UNCHANGED pgCursor
          ELSE /\ pgCursor' = [results |-> batch, continue |-> res.continue]
               /\ pgPc' = "cursor"
               /\ UNCHANGED <<pgRequests, pgResults>>
    /\ pgAnswered' = pgAnswered + 1
    /\ UNCHANGED <<mainVars, fnVars, remote, pgAccessor, pgAggregated, pgNextCalls>>

\* the outstanding request fails: the accessor's promise rejects
PageFail ==
    /\ pgPc = "fetching"
    /\ pgPc' = "failed"
    /\ UNCHANGED <<mainVars, fnVars, remote, pgAccessor, pgAggregated, pgRequests,
                   pgAnswered, pgResults, pgCursor, pgNextCalls>>

\* the caller asks the cursor form for the next batch
CursorNext ==
    /\ pgPc = "cursor"
    /\ pgCursor.continue # 0
    /\ pgRequests' = Append(pgRequests,
                        PaginationRequest(pgRequests[1].params, pgCursor.continue))
    /\ pgNextCalls' = pgNextCalls + 1
    /\ pgPc' = "fetching"
    /\ UNCHANGED <<mainVars, fnVars, remote, pgAccessor, pgAggregated, pgAnswered,
                   pgResults, pgCursor>>

NextPaging ==
    \/ CallAccessor
    \/ PageRespond
    \/ PageFail
    \/ CursorNext

SpecPaging == InitPaging /\ [][NextPaging]_vars

\* ------------------------------------------------------ getFileName, applied
FileNameAlphabet == {"F", ":", "a"}

\* the strings of at most MaxTextLen characters
FileNameTexts == UNION {[1..n -> FileNameAlphabet] : n \in 0..MaxTextLen}

\* a string, or an array holding one
FileNameInputs == {JSStr(t) : t \in FileNameTexts} \cup
                  {JSArr(<<t>>) : t \in FileNameTexts}

InitFileName ==
    /\ PageInit
    /\ PagingIdle
    /\ fnPc = "ready"
    /\ fnInput \in FileNameInputs
    /\ fnOutput = JSUndefined

ApplyGetFileName ==
    /\ fnPc = "ready"
    /\ fnOutput' = getFileName(fnInput)
    /\ fnPc' = "done"
    /\ UNCHANGED <<mainVars, pagingVars, fnInput>>

NextFileName == ApplyGetFileName

SpecFileName == InitFileName /\ [][NextFileName]_vars

\* ===================================================================== claims
\* Notions the claims are stated in, defined from their wording.

\* the text after the namespace prefix: everything after the first colon, the
\* whole text when there is no colon
BareTitle(t) ==
    LET i == IndexOf(t, <<":">>)
    IN IF i = -1 THEN t ELSE SubSeq(t, i + 2, Len(t))

\* the spaces of s replaced with underscores
SpacesToUnderscores(s) == [i \in 1..Len(s) |-> IF s[i] = " " THEN "_" ELSE s[i]]

\* an infobox value that is absent or empty
EmptyValue(v) == \/ v.kind = "undefined"
                 \/ v.v = <<>>
                 \/ (v.kind = "string" /\ v.v[1] = <<>>)

\* the position, in priority order, of the first image-bearing key with a
\* non-empty value; 0 when there is none
FirstImageKey(f) ==
    LET found == {i \in 1..Len(ImageKeys) : ~EmptyValue(f[ImageKeys[i]])}
    IN IF found = {} THEN 0 ELSE CHOOSE i \in found : \A j \in found : i <= j

\* the request of the fallback: a third or fourth request, for the page's own text
FallbackRequests ==
    {i \in 3..Len(requests) :
        requests[i] = [prop |-> "revisions", titles |-> rawTitle]}

\* the requests for the template "Template:Infobox ba" of the page "Ba"
TemplateRequests ==
    {i \in 1..Len(requests) :
        requests[i] = [prop |-> "revisions", titles |-> TemplatePrefix \o <<"b", "a">>]}

\* the callback of Promise.all has run: mainImage went on past both results
CallbackRan ==
    call = "mainImage" /\ imgPc = "resolved" /\ infoPc = "resolved"

\* mainImage returned from the branch that searches the listing
ReturnedFromSearch ==
    CallbackRan /\ mainPc = "resolved" /\ FallbackRequests = {}

\* the first image-info URL of candidate c, undefined ("none") when it has none
FirstUrlOrNone(c) ==
    IF Len(c.imageinfo) > 0 THEN JSStr(c.imageinfo[1].url) ELSE JSUndefined

\* C3: in every call of info(), on its own or inside mainImage: a mapping
\* parsed empty from the page's own wikitext is followed by exactly one request,
\* for "Template:Infobox <lowercased title>", right after info's first request
\* and by no other request of info; a non-empty mapping, or none parsed, by no
\* template request; info() never issues more than two requests.
C3_InfoOneShotFallback ==
    LET first == IF call = "mainImage" THEN 2 ELSE 1
        parsedEmpty == general.kind = "object" /\ ObjectKeys(general.v) = {}
    IN call # "none" =>
         /\ requests[first] = [prop |-> "revisions", titles |-> rawTitle]
         /\ parsedEmpty => TemplateRequests = {first + 1}
         /\ ~parsedEmpty => TemplateRequests = {}
         /\ Len(requests) - Cardinality(FallbackRequests)
               = first + Cardinality(TemplateRequests)
         /\ Cardinality(FallbackRequests) <= 1

\* C3 witness: info() has resolved after the template's request, the page's
\* own mapping having been empty
C3_Witness ==
    /\ call = "info"
    /\ infoPc = "resolved"
    /\ general = Obj(EmptyFieldSet)
    /\ Len(requests) = 2
    /\ metadata # Obj(EmptyFieldSet)

C8_FailurePropagation ==
    (call = "mainImage" /\ (imgPc = "rejected" \/ infoPc = "rejected")) =>
        /\ mainPc = "rejected"
        /\ error \in (IF imgPc = "rejected" THEN {"ErrImages"} ELSE {})
                      \cup (IF infoPc = "rejected" THEN {infoError} ELSE {})
        /\ result = JSUndefined
        /\ FallbackRequests = {}
        /\ Cardinality({i \in 1..Len(requests) : requests[i] = ImagesRequest}) = 1
        /\ Len(requests) = 2 + Cardinality(TemplateRequests)

\* C8 witness: the listing arrived first, then the template's request of
\* info() failed, and mainImage failed with that error
C8_Witness ==
    /\ call = "mainImage"
    /\ imgPc = "resolved"
    /\ infoPc = "rejected"
    /\ mainPc = "rejected"
    /\ error = "ErrInfoTemplate"
    /\ Len(requests) = 3

\* the candidates of the listing the claim of C1 calls matched by the file name
\* F: their bare title equals F, or F with its spaces replaced by underscores
MatchedAsClaimed(F) ==
    {i \in 1..Len(images) :
        \/ BareTitle(images[i].title) = F
        \/ BareTitle(images[i].title) = SpacesToUnderscores(F)}

\* the candidates whose bare title equals F, as it is or with its own spaces
\* replaced by underscores
MatchedByTitle(F) ==
    {i \in 1..Len(images) :
        \/ BareTitle(images[i].title) = F
        \/ SpacesToUnderscores(BareTitle(images[i].title)) = F}

Least(S) == CHOOSE i \in S : \A j \in S : i <= j

\* C1 as claimed: a candidate whose bare title equals the infobox file name F,
\* or F with its spaces replaced by underscores, is matched, and mainImage
\* returns the URL of the first such candidate when it has a record.
C1_AsClaimed ==
    ReturnedFromSearch =>
        LET hits == MatchedAsClaimed(Chars(mainImageName))
        IN (hits # {} /\ Len(images[Least(hits)].imageinfo) > 0) =>
              result = JSStr(images[Least(hits)].imageinfo[1].url)

\* C1 amended: a candidate is matched when its bare title equals F, or equals F
\* once the spaces of the bare title are replaced by underscores; mainImage
\* returns the URL of the first such candidate when it has a record.
C1_UnderscoreEquivalence ==
    ReturnedFromSearch =>
        LET hits == MatchedByTitle(Chars(mainImageName))
        IN (hits # {} /\ Len(images[Least(hits)].imageinfo) > 0) =>
              result = JSStr(images[Least(hits)].imageinfo[1].url)

\* C1 witness: the infobox names "a_b", the listing holds only "F:a b", and
\* its first URL was returned
C1_Witness ==
    /\ ReturnedFromSearch
    /\ mainImageName = JSStr(NameA_B)
    /\ Len(images) = 1
    /\ images[1].title = FileAB
    /\ result = JSStr(Url(FileAB, 1))

\* C6: when the infobox yields a file name, mainImage returns the first
\* image-info URL of the first candidate, in listing order, whose bare title
\* matches it, and "none" when no candidate matches or that candidate has no
\* record.
C6_FirstMatchWins ==
    ReturnedFromSearch =>
        LET hits == MatchedByTitle(Chars(mainImageName))
        IN result = IF hits = {} THEN JSUndefined
                    ELSE FirstUrlOrNone(images[Least(hits)])

\* C6 witness: two candidates match "a_b"; the second is listed first in
\* Object.keys order and its first URL was returned
C6_Witness ==
    /\ ReturnedFromSearch
    /\ mainImageName = JSStr(NameA_B)
    /\ Len(images) = 2
    /\ images[1].title = FileAB
    /\ images[2].title = FileA_B
    /\ Len(images[2].imageinfo) > 0
    /\ result = JSStr(Url(FileAB, 1))

\* no image-bearing key is present in the field set info() resolved with
NoImageKey(f) == \A i \in 1..Len(ImageKeys) : f[ImageKeys[i]].kind = "undefined"

\* the case of C2: no image-bearing key, a non-empty listing, and the
\* fallback's request answered with text
FallbackCase ==
    /\ CallbackRan
    /\ NoImageKey(metadata.v)
    /\ Len(images) > 0
    /\ rawText.kind = "string"

\* the first URLs of the listing's candidates
ListingUrls == {JSStr(images[i].imageinfo[1].url) :
                  i \in {j \in 1..Len(images) : Len(images[j].imageinfo) > 0}}

\* C2 as claimed: in that case mainImage runs the fallback and returns a URL
\* taken from the listing, never "none".
C2_AsClaimed ==
    FallbackCase =>
        /\ FallbackRequests # {}
        /\ mainPc = "resolved"
        /\ result \in ListingUrls

\* C2 amended: in that case mainImage runs the fallback and returns the first
\* URL of the candidate sorted first when that candidate has an image-info
\* record, a URL taken from the listing, and "none" when it has no record.
C2_FallbackActivation ==
    /\ (CallbackRan /\ NoImageKey(metadata.v)) => FallbackRequests # {}
    /\ FallbackCase =>
          /\ mainPc = "resolved"
          /\ IF Len(images[1].imageinfo) > 0
             THEN result \in ListingUrls /\ result = FirstUrlOrNone(images[1])
             ELSE result = JSUndefined

\* C2 witness: the fallback returned a URL of a listing of two candidates
C2_Witness ==
    /\ FallbackCase
    /\ Len(images) = 2
    /\ mainPc = "resolved"
    /\ result \in ListingUrls

FullTitle(t) == t

\* the candidate of listing l that comes first when the candidates are ordered
\* by the descending position of the first occurrence of Key(title) in text,
\* candidates with equal positions keeping listing order
TopBy(l, text, Key(_)) ==
    CHOOSE i \in 1..Len(l) :
        \A j \in 1..Len(l) \ {i} :
            LET pi == IndexOf(text, Key(l[i].title))
                pj == IndexOf(text, Key(l[j].title))
            IN pi > pj \/ (pi = pj /\ i < j)

\* the fallback returns, the text and a non-empty listing at hand
FallbackReturns ==
    /\ mainPc = "rawtext"
    /\ mainPc' = "resolved"
    /\ rawText'.kind = "string"
    /\ Len(images) > 0

RECURSIVE TitlesUpTo(_)
TitlesUpTo(b) ==
    IF b = 0 THEN <<>>
    ELSE TitlesUpTo(b - 1) \o [i \in 1..Len(remote[b]) |-> remote[b][i].title]

\* C7: aggregated, links(), categories() and backlinks() return exactly the
\* concatenation of all batches in the server's order, with one request per
\* batch, one at a time, each carrying the token of the response before it,
\* and stop at the response without a token; not aggregated, they resolve with
\* the current batch alone and request another only when the caller asks.
C7_Pagination ==
    /\ pgPc = "done" =>
          /\ pgAggregated
          /\ pgResults = TitlesUpTo(Len(remote))
          /\ Len(pgRequests) = Len(remote)
    /\ Len(pgRequests) - pgAnswered = IF pgPc \in {"fetching", "failed"} THEN 1 ELSE 0
    /\ \A i \in 1..Len(pgRequests) : pgRequests[i].continue = i - 1
    /\ Len(pgRequests) <= Len(remote)
    /\ (pgAggregated /\ pgPc # "idle") =>
          /\ pgResults = TitlesUpTo(pgAnswered)
          /\ pgNextCalls = 0
          /\ pgPc = "done" <=> pgAnswered = Len(remote)
    /\ (~pgAggregated /\ pgPc # "idle") =>
          /\ pgPc # "done"
          /\ pgResults = <<>>
          /\ Len(pgRequests) = 1 + pgNextCalls
          /\ pgPc = "cursor" =>
                pgCursor.results = [i \in 1..Len(remote[pgAnswered]) |->
                                       remote[pgAnswered][i].title]

\* C7 witness: three batches of 2, 0 and 1 items were drained in three requests
C7_Witness ==
    /\ pgPc = "done"
    /\ Len(remote) = 3
    /\ Len(remote[1]) = 2
    /\ Len(remote[2]) = 0
    /\ pgResults = <<1, 2, 3>>
    /\ Len(pgRequests) = 3

\* C10 as claimed: for a text with a colon getFileName returns all of the text
\* after the first colon, for a text without one the text itself; an array
\* stands for its first element.
C10_AsClaimed ==
    fnPc = "done" =>
        LET text == fnInput.v[1]
        IN text # <<>> => fnOutput = JSStr(BareTitle(text))

====
